---------------------------- MODULE Spec2Model ----------------------------
(***************************************************************************)
(* A model of the excel exporter (src/exporter.go): Exporter.Export with   *)
(* its two write strategies (exportUsingStreamWriter, exportUsingMemory),  *)
(* the pull loop with sheet splitting (exportHelper) and the channel       *)
(* adapter UseRowChan with its background goroutine.                       *)
(*                                                                         *)
(* The excelize workbook is the environment: every call into it is logged  *)
(* in `log` and either succeeds or fails.  Row sources and init hooks are  *)
(* caller code: they answer nondeterministically.                          *)
(***************************************************************************)
EXTENDS Integers, Sequences, FiniteSets, TLC

(* Rows per physical sheet.  The program's value is 1 << 20                *)
(* (src/exporter.go:11); the model scales it down, the code only compares  *)
(* rowID with it.                                                          *)
SheetMaxRows == 2

(* Rows that all the row sources of one Export call yield together: enough *)
(* for one sheet to overflow and the next sheet to get a row.              *)
MaxRows == 4

NoErr == "nil"
SomeErr == "err"

(* The sheet excelize.NewFile() puts in a fresh workbook. *)
DefaultSheet == "Sheet1"

(* ------------------------------ data model ------------------------------ *)

Cell(v, s, f) == [Value |-> v, StyleID |-> s, Formula |-> f]

MergeCell(tl, br) == [TopLeftCell |-> tl, BottomRightCell |-> br]

(* A Row.  `nil` tells whether the Cells slice is nil (then it has no      *)
(* elements); `id` identifies the row the source produced (0: Row{}).      *)
Row(id, isNil, cells, merges) ==
    [id |-> id, nil |-> isNil, Cells |-> cells, MergeCells |-> merges]

(* Row{} *)
ZeroRow == Row(0, TRUE, <<>>, <<>>)

RowShapes == {"empty", "full"}

(* The rows a source hands out: a present but empty Cells slice; a plain   *)
(* value followed by a styled formula cell, with a merge instruction; and  *)
(* (from a producer) a row whose Cells slice is nil.                       *)
MkRow(id, shape) ==
    CASE shape = "empty" -> Row(id, FALSE, <<>>, <<>>)
      [] shape = "full"  -> Row(id, FALSE, <<Cell(id, 0, ""), Cell(id, 1, "f")>>,
                                <<MergeCell("A1", "B1")>>)
      [] shape = "nil"   -> Row(id, TRUE, <<>>, <<>>)

(* SheetData: Name, RowFunc (a plain function or one built by UseRowChan), *)
(* InitFunc (nil or not).                                                  *)
SheetData(name, kind, hasInit) == [Name |-> name, Kind |-> kind, HasInit |-> hasInit]

(* The names are pairwise distinct in every list; "a_1" is also the name    *)
(* exportHelper gives the first overflow sheet of "a".                     *)
SheetNames == {<<>>, <<"a">>, <<DefaultSheet>>, <<"a", "a_1">>}

(* The arguments of Export explored: the lists of sheets with these names  *)
(* in which only the first RowFunc may be built by UseRowChan and at most  *)
(* one sheet has an InitFunc.                                              *)
AtMostOne(f, v) == Cardinality({k \in DOMAIN f : f[k] = v}) <= 1

SheetLists ==
    UNION {{[k \in 1..Len(ns) |-> SheetData(ns[k], kinds[k], inits[k])] :
                kinds \in {f \in [1..Len(ns) -> {"func", "chan"}] :
                              \A k \in DOMAIN f : k > 1 => f[k] = "func"},
                inits \in {f \in [1..Len(ns) -> BOOLEAN] : AtMostOne(f, TRUE)}} :
           ns \in SheetNames}

(* fmt.Sprintf("%s_%d", sheet.Name, sheetSuffix) *)
SplitName(name, suffix) == name \o "_" \o ToString(suffix)

VARIABLES
    UseStreamWriter,  \* Exporter.UseStreamWriter
    sheets,           \* the argument of Export
    CurrentSheet,     \* Exporter.CurrentSheet
    StreamWriter,     \* Exporter.StreamWriter: a handle number, 0 for nil
    fileSheets,       \* the sheets of Exporter.File
    handles,          \* stream writers the workbook has handed out
    pc,               \* position of the goroutine running Export
    i,                \* Export: index of the range loop (0-based)
    rowID,            \* exportHelper: rowID
    sheetSuffix,      \* exportHelper: sheetSuffix
    rowIndex,         \* exportHelper: rowIndex
    row,              \* exportHelper: row
    j,                \* writeRowFunc: position in row.Cells / row.MergeCells
    initRet,          \* where initFunc was called from: "start" or "split"
    err,              \* what Export returns
    ch,               \* per sheet, the closure state of UseRowChan
    crow, cok,        \* UseRowChan's returned function: row, ok
    log               \* calls made by the Export goroutine, in order

vars == <<UseStreamWriter, sheets, CurrentSheet, StreamWriter, fileSheets, handles,
          pc, i, rowID, sheetSuffix, rowIndex, row, j, initRet, err, ch, crow, cok, log>>

config   == <<UseStreamWriter, sheets>>
file     == <<fileSheets, handles>>
helper   == <<rowID, sheetSuffix, rowIndex, row, j, initRet>>
adapter  == <<ch, crow, cok>>

(* One logged call.  spec: index of the sheet being exported; sheet: the   *)
(* sheet name passed; h: stream handle; n: row number (row index for a     *)
(* pull); id: the row's id; cells: number of cells of the row, -1 for nil  *)
(* Cells (for a cell write or a merge its position in the row, for         *)
(* deleteSheet the workbook's SheetCount at the call).                     *)
Ev(op, sheet, h, n, id, cells, ok) ==
    [op |-> op, spec |-> i, sheet |-> sheet, h |-> h, n |-> n, id |-> id,
     cells |-> cells, ok |-> ok]

Emit(e) == log' = Append(log, e)

sheet == sheets[i + 1]

NumCells(r) == IF r.nil THEN -1 ELSE Len(r.Cells)

(* UseRowChan's captured variables before the first call: once not done,   *)
(* dataCh nil, sendErr nil, no goroutine (ppc: its position).  sent: the   *)
(* rows of the producer's completed sends.  starts: how often the body     *)
(* passed to once.Do has run (each run makes a channel and starts a        *)
(* goroutine that calls sendDataFunc).  recvd: how many rows the returned  *)
(* function has received from dataCh.                                      *)
NewChan == [once |-> FALSE, dataCh |-> "nil", sendErr |-> NoErr, ppc |-> "none",
            sent |-> <<>>, starts |-> 0, recvd |-> 0]

(* New(fileName, useStreamWriter) *)
Init ==
    /\ UseStreamWriter \in BOOLEAN
    /\ sheets = <<>>
    /\ CurrentSheet = ""
    /\ StreamWriter = 0
    /\ fileSheets = {DefaultSheet}
    /\ handles = 0
    /\ pc = "idle"
    /\ i = 0
    /\ rowID = 0 /\ sheetSuffix = 0 /\ rowIndex = 0 /\ row = ZeroRow /\ j = 0
    /\ initRet = "start"
    /\ err = NoErr
    /\ ch = <<>>
    /\ crow = ZeroRow /\ cok = FALSE
    /\ log = <<>>


(* ------------------------------- Export -------------------------------- *)

(* The error returns without the deferred Close. *)
Fail_noClose == err' = SomeErr /\ pc' = "done"

(* A failed step: the error is returned, the deferred Close runs next. *)
Fail == err' = SomeErr /\ pc' = "close"

(* for i, sheet := range sheets, and the return after the loop *)
LoopPc(k) == IF k < Len(sheets) THEN "newSheet" ELSE "saveAs"

(* Export(sheets) is called *)
ExportCall ==
    /\ pc = "idle"
    /\ \E sh \in SheetLists :
          /\ sheets' = sh
          /\ ch' = [k \in 1..Len(sh) |-> NewChan]
          /\ pc' = IF 0 < Len(sh) THEN "newSheet" ELSE "saveAs"
    /\ i' = 0
    /\ UNCHANGED <<UseStreamWriter, CurrentSheet, StreamWriter, file, helper, err,
                   crow, cok, log>>

(* e.File.NewSheet(sheet.Name) *)
NewSheet ==
    /\ pc = "newSheet"
    /\ \E ok \in BOOLEAN :
          /\ Emit(Ev("createSheet", sheet.Name, 0, 0, 0, 0, ok))
          /\ IF ok
               THEN /\ fileSheets' = fileSheets \cup {sheet.Name}
                    /\ pc' = "delDefault"
                    /\ err' = err
               ELSE /\ fileSheets' = fileSheets
                    /\ Fail
    /\ UNCHANGED <<config, CurrentSheet, StreamWriter, handles, i, helper, adapter>>

(* e.File.SheetCount *)
SheetCount == Cardinality(fileSheets)

(* The test without i == 0. *)
DeleteWanted_anySheet == SheetCount > 1

(* i == 0 && e.File.SheetCount > 1 *)
DeleteWanted == i = 0 /\ SheetCount > 1

(* if i == 0 && e.File.SheetCount > 1 { e.File.DeleteSheet("Sheet1") } *)
DeleteDefault ==
    /\ pc = "delDefault"
    /\ IF DeleteWanted
         THEN \E ok \in BOOLEAN :
                 /\ Emit(Ev("deleteSheet", DefaultSheet, 0, 0, 0, SheetCount, ok))
                 /\ IF ok
                      THEN /\ fileSheets' = fileSheets \ {DefaultSheet}
                           /\ pc' = "helper"
                           /\ err' = err
                      ELSE /\ fileSheets' = fileSheets
                           /\ Fail
         ELSE /\ pc' = "helper"
              /\ UNCHANGED <<fileSheets, err, log>>
    /\ UNCHANGED <<config, CurrentSheet, StreamWriter, handles, i, helper, adapter>>

(* initFunc of the strategy in use starts here *)
InitPc == IF UseStreamWriter THEN "initFlush" ELSE "initHook"

(* exportHelper: rowID := 1; sheetSuffix := 0; e.CurrentSheet = sheet.Name; *)
(* initFunc(e.CurrentSheet)                                                 *)
HelperEntry ==
    /\ pc = "helper"
    /\ rowID' = 1
    /\ sheetSuffix' = 0
    /\ CurrentSheet' = sheet.Name
    /\ initRet' = "start"
    /\ pc' = InitPc
    /\ UNCHANGED <<config, StreamWriter, file, i, rowIndex, row, j, err, adapter, log>>

(* The new stream is opened without flushing the previous one. *)
InitFlush_skip ==
    /\ pc = "initFlush"
    /\ pc' = "initOpen"
    /\ UNCHANGED <<config, CurrentSheet, StreamWriter, file, i, helper, err, adapter, log>>

(* streaming initFunc: if e.StreamWriter != nil { e.StreamWriter.Flush() } *)
InitFlush ==
    /\ pc = "initFlush"
    /\ IF StreamWriter # 0
         THEN \E ok \in BOOLEAN :
                 /\ Emit(Ev("flush", "", StreamWriter, 0, 0, 0, ok))
                 /\ IF ok THEN pc' = "initOpen" /\ err' = err ELSE Fail
         ELSE /\ pc' = "initOpen"
              /\ UNCHANGED <<err, log>>
    /\ UNCHANGED <<config, CurrentSheet, StreamWriter, file, i, helper, adapter>>

(* streaming initFunc: e.StreamWriter, err = e.File.NewStreamWriter(sheetName) *)
InitOpen ==
    /\ pc = "initOpen"
    /\ \E ok \in BOOLEAN :
          IF ok
            THEN /\ handles' = handles + 1
                 /\ StreamWriter' = handles + 1
                 /\ Emit(Ev("openStream", CurrentSheet, handles + 1, 0, 0, 0, TRUE))
                 /\ pc' = "initHook"
                 /\ err' = err
            ELSE /\ handles' = handles
                 /\ StreamWriter' = 0
                 /\ Emit(Ev("openStream", CurrentSheet, 0, 0, 0, 0, FALSE))
                 /\ Fail
    /\ UNCHANGED <<config, CurrentSheet, fileSheets, i, helper, adapter>>

(* The hook runs for the first sheet of a spec only. *)
HookWanted_firstOnly == sheet.HasInit /\ initRet = "start"

(* sheet.InitFunc != nil *)
HookWanted == sheet.HasInit

(* both initFuncs: if sheet.InitFunc != nil { sheet.InitFunc(e) }, and the  *)
(* return into exportHelper (var rowIndex = 0 after the first call)         *)
InitHook ==
    /\ pc = "initHook"
    /\ \E ok \in (IF HookWanted THEN BOOLEAN ELSE {TRUE}) :
          /\ IF HookWanted
               THEN Emit(Ev("init", CurrentSheet, StreamWriter, 0, 0, 0, ok))
               ELSE log' = log
          /\ IF ok
               THEN /\ pc' = IF initRet = "start" THEN "pull" ELSE "write"
                    /\ rowIndex' = IF initRet = "start" THEN 0 ELSE rowIndex
                    /\ err' = err
               ELSE /\ Fail
                    /\ rowIndex' = rowIndex
    /\ UNCHANGED <<config, CurrentSheet, StreamWriter, file, i, rowID, sheetSuffix,
                   row, j, initRet, adapter>>


(* ----------------------------- exportHelper ----------------------------- *)

(* Rows handed out so far by all row sources of this Export call: rows     *)
(* returned by plain RowFuncs plus rows a producer has put on its channel. *)
RECURSIVE SumSent(_)
SumSent(k) ==
    IF k = 0 THEN 0
    ELSE SumSent(k - 1) + Len(ch[k].sent) + (IF ch[k].ppc = "sending" THEN 1 ELSE 0)

Yielded ==
    Cardinality({k \in DOMAIN log : /\ log[k].op = "pull" /\ log[k].ok
                                    /\ log[k].cells >= 0
                                    /\ sheets[log[k].spec + 1].Kind = "func"})
    + SumSent(Len(ch))

(* The end test written as len(row.Cells) == 0. *)
IsSentinel_len(r) == r.nil \/ Len(r.Cells) = 0

(* if row.Cells == nil *)
IsSentinel(r) == r.nil

(* The pull error ends the loop like the sentinel instead of returning. *)
AfterPull_swallow(r, e) ==
    /\ Emit(Ev("pull", "", 0, rowIndex, IF e = NoErr THEN r.id ELSE 0,
               IF e = NoErr THEN NumCells(r) ELSE -1, e = NoErr))
    /\ row' = IF e # NoErr THEN row ELSE r
    /\ err' = err
    /\ pc' = IF e # NoErr \/ IsSentinel(r)
               THEN (IF UseStreamWriter THEN "finalFlush" ELSE "nextSheet")
               ELSE "split"

(* A failed pull is retried: the row source is called again. *)
AfterPull_retry(r, e) ==
    /\ Emit(Ev("pull", "", 0, rowIndex, IF e = NoErr THEN r.id ELSE 0,
               IF e = NoErr THEN NumCells(r) ELSE -1, e = NoErr))
    /\ IF e # NoErr
         THEN /\ row' = row
              /\ err' = err
              /\ pc' = "pull"
         ELSE /\ row' = r
              /\ err' = err
              /\ pc' = IF IsSentinel(r)
                         THEN (IF UseStreamWriter THEN "finalFlush" ELSE "nextSheet")
                         ELSE "split"

(* exportHelper after row, err := sheet.RowFunc(rowIndex):                  *)
(* if err != nil { return err }; if row.Cells == nil { break }              *)
AfterPull(r, e) ==
    /\ Emit(Ev("pull", "", 0, rowIndex, IF e = NoErr THEN r.id ELSE 0,
               IF e = NoErr THEN NumCells(r) ELSE -1, e = NoErr))
    /\ IF e # NoErr
         THEN Fail /\ row' = row
         ELSE /\ row' = r
              /\ err' = err
              /\ pc' = IF IsSentinel(r)
                         THEN (IF UseStreamWriter THEN "finalFlush" ELSE "nextSheet")
                         ELSE "split"

(* row, err := sheet.RowFunc(rowIndex) with a plain RowFunc: it answers a  *)
(* row, the end of the data or an error                                    *)
PullFunc ==
    /\ pc = "pull"
    /\ sheet.Kind = "func"
    /\ \/ \E shape \in RowShapes :
             /\ Yielded < MaxRows
             /\ AfterPull(MkRow(rowIndex + 1, shape), NoErr)
       \/ AfterPull(ZeroRow, NoErr)
       \/ AfterPull(ZeroRow, SomeErr)
    /\ UNCHANGED <<config, CurrentSheet, StreamWriter, file, i, rowID, sheetSuffix,
                   rowIndex, j, initRet, adapter>>

(* The split test off by one: the sheet is split one row early. *)
NeedSplit_early == rowID >= SheetMaxRows

(* rowID > SheetMaxRows *)
NeedSplit == rowID > SheetMaxRows

(* if rowID > SheetMaxRows { sheetSuffix++; rowID = 1; NewSheet(...);       *)
(* e.CurrentSheet = currentSheetName; initFunc(e.CurrentSheet) }            *)
Split ==
    /\ pc = "split"
    /\ IF NeedSplit
         THEN /\ sheetSuffix' = sheetSuffix + 1
              /\ rowID' = 1
              /\ \E ok \in BOOLEAN :
                    /\ Emit(Ev("createSheet", SplitName(sheet.Name, sheetSuffix + 1),
                               0, 0, 0, 0, ok))
                    /\ IF ok
                         THEN /\ fileSheets' = fileSheets \cup
                                                 {SplitName(sheet.Name, sheetSuffix + 1)}
                              /\ CurrentSheet' = SplitName(sheet.Name, sheetSuffix + 1)
                              /\ initRet' = "split"
                              /\ pc' = InitPc
                              /\ err' = err
                         ELSE /\ Fail
                              /\ UNCHANGED <<fileSheets, CurrentSheet, initRet>>
         ELSE /\ pc' = "write"
              /\ UNCHANGED <<sheetSuffix, rowID, fileSheets, CurrentSheet, initRet, err, log>>
    /\ UNCHANGED <<config, StreamWriter, handles, i, rowIndex, row, j, adapter>>

(* The source index follows the row number, which a split resets. *)
RowDone_indexFromRowID ==
    /\ pc = "rowDone"
    /\ rowID' = rowID + 1
    /\ rowIndex' = rowID
    /\ pc' = "pull"
    /\ UNCHANGED <<config, CurrentSheet, StreamWriter, file, i, sheetSuffix, row, j,
                   initRet, err, adapter, log>>

(* rowID++; rowIndex++ *)
RowDone ==
    /\ pc = "rowDone"
    /\ rowID' = rowID + 1
    /\ rowIndex' = rowIndex + 1
    /\ pc' = "pull"
    /\ UNCHANGED <<config, CurrentSheet, StreamWriter, file, i, sheetSuffix, row, j,
                   initRet, err, adapter, log>>


(* --------------------------- write strategies --------------------------- *)

(* for _, mergeCell := range row.MergeCells: the k-th iteration or the end *)
MergePc(k) == IF k <= Len(row.MergeCells) THEN "merge" ELSE "rowDone"

(* writeRowFunc(e.CurrentSheet, rowID, row) is called *)
WriteRow ==
    /\ pc = "write"
    /\ Emit(Ev("writeRow", CurrentSheet, StreamWriter, rowID, row.id, NumCells(row), TRUE))
    /\ j' = 1
    /\ pc' = IF UseStreamWriter THEN "setRow"
             ELSE IF 1 <= Len(row.Cells) THEN "cellValue" ELSE MergePc(1)
    /\ UNCHANGED <<config, CurrentSheet, StreamWriter, file, i, rowID, sheetSuffix,
                   rowIndex, row, initRet, err, adapter>>

(* streaming writeRowFunc: e.StreamWriter.SetRow(cell, rowCells, row.RowOpts...) *)
SetRow ==
    /\ pc = "setRow"
    /\ \E ok \in BOOLEAN :
          /\ Emit(Ev("setRow", "", StreamWriter, rowID, row.id, Len(row.Cells), ok))
          /\ IF ok THEN pc' = MergePc(1) /\ err' = err ELSE Fail
    /\ UNCHANGED <<config, CurrentSheet, StreamWriter, file, i, helper, adapter>>

(* streaming writeRowFunc: e.StreamWriter.MergeCell(TopLeftCell, BottomRightCell) *)
StreamMergeCell ==
    /\ pc = "merge"
    /\ UseStreamWriter
    /\ \E ok \in BOOLEAN :
          /\ Emit(Ev("mergeCells", "", StreamWriter, rowID, row.id, j, ok))
          /\ IF ok THEN pc' = MergePc(j + 1) /\ j' = j + 1 /\ err' = err
                   ELSE Fail /\ j' = j
    /\ UNCHANGED <<config, CurrentSheet, StreamWriter, file, i, rowID, sheetSuffix,
                   rowIndex, row, initRet, adapter>>

(* buffered writeRowFunc: the next cell of the range loop, or the merges *)
AfterCell ==
    IF j + 1 <= Len(row.Cells)
      THEN pc' = "cellValue" /\ j' = j + 1
      ELSE pc' = MergePc(1) /\ j' = 1

(* cell.StyleID > 0 *)
HasStyle(cell) == cell.StyleID > 0

(* cell.Formula != "" *)
HasFormula(cell) == cell.Formula # ""

(* buffered writeRowFunc: e.File.SetCellValue(sheetName, cellName, cell.Value) *)
SetCellValue ==
    /\ pc = "cellValue"
    /\ \E ok \in BOOLEAN :
          /\ Emit(Ev("setCellValue", CurrentSheet, 0, rowID, row.id, j, ok))
          /\ IF ok
               THEN /\ err' = err
                    /\ IF HasStyle(row.Cells[j]) THEN pc' = "cellStyle" /\ j' = j
                       ELSE IF HasFormula(row.Cells[j]) THEN pc' = "cellFormula" /\ j' = j
                       ELSE AfterCell
               ELSE Fail /\ j' = j
    /\ UNCHANGED <<config, CurrentSheet, StreamWriter, file, i, rowID, sheetSuffix,
                   rowIndex, row, initRet, adapter>>

(* buffered writeRowFunc: e.File.SetCellStyle(sheetName, cellName, cellName, cell.StyleID) *)
SetCellStyle ==
    /\ pc = "cellStyle"
    /\ \E ok \in BOOLEAN :
          /\ Emit(Ev("setCellStyle", CurrentSheet, 0, rowID, row.id, j, ok))
          /\ IF ok
               THEN /\ err' = err
                    /\ IF HasFormula(row.Cells[j]) THEN pc' = "cellFormula" /\ j' = j
                       ELSE AfterCell
               ELSE Fail /\ j' = j
    /\ UNCHANGED <<config, CurrentSheet, StreamWriter, file, i, rowID, sheetSuffix,
                   rowIndex, row, initRet, adapter>>

(* buffered writeRowFunc: e.File.SetCellFormula(sheetName, cellName, cell.Formula) *)
SetCellFormula ==
    /\ pc = "cellFormula"
    /\ \E ok \in BOOLEAN :
          /\ Emit(Ev("setCellFormula", CurrentSheet, 0, rowID, row.id, j, ok))
          /\ IF ok THEN err' = err /\ AfterCell ELSE Fail /\ j' = j
    /\ UNCHANGED <<config, CurrentSheet, StreamWriter, file, i, rowID, sheetSuffix,
                   rowIndex, row, initRet, adapter>>

(* buffered writeRowFunc: e.File.MergeCell(sheetName, TopLeftCell, BottomRightCell) *)
MemMergeCell ==
    /\ pc = "merge"
    /\ ~UseStreamWriter
    /\ \E ok \in BOOLEAN :
          /\ Emit(Ev("mergeCells", CurrentSheet, 0, rowID, row.id, j, ok))
          /\ IF ok THEN pc' = MergePc(j + 1) /\ j' = j + 1 /\ err' = err
                   ELSE Fail /\ j' = j
    /\ UNCHANGED <<config, CurrentSheet, StreamWriter, file, i, rowID, sheetSuffix,
                   rowIndex, row, initRet, adapter>>

(* The strategy returns nil without the final Flush. *)
FinalFlush_skip ==
    /\ pc = "finalFlush"
    /\ pc' = "nextSheet"
    /\ UNCHANGED <<config, CurrentSheet, StreamWriter, file, i, helper, err, adapter, log>>

(* exportUsingStreamWriter: return e.StreamWriter.Flush() *)
FinalFlush ==
    /\ pc = "finalFlush"
    /\ \E ok \in BOOLEAN :
          /\ Emit(Ev("flush", "", StreamWriter, 0, 0, 0, ok))
          /\ IF ok THEN pc' = "nextSheet" /\ err' = err ELSE Fail
    /\ UNCHANGED <<config, CurrentSheet, StreamWriter, file, i, helper, adapter>>

(* Export: the strategy returned nil, the range loop goes on *)
NextSheet ==
    /\ pc = "nextSheet"
    /\ i' = i + 1
    /\ pc' = LoopPc(i + 1)
    /\ UNCHANGED <<config, CurrentSheet, StreamWriter, file, helper, err, adapter, log>>

(* return e.File.SaveAs(e.FileName) *)
SaveAs ==
    /\ pc = "saveAs"
    /\ \E ok \in BOOLEAN :
          /\ Emit(Ev("saveAs", "", 0, 0, 0, 0, ok))
          /\ IF ok THEN pc' = "close" /\ err' = err ELSE Fail
    /\ UNCHANGED <<config, CurrentSheet, StreamWriter, file, i, helper, adapter>>

(* defer e.File.Close(), then Export returns err *)
Close ==
    /\ pc = "close"
    /\ Emit(Ev("close", "", 0, 0, 0, 0, TRUE))
    /\ pc' = "done"
    /\ UNCHANGED <<config, CurrentSheet, StreamWriter, file, i, helper, err, adapter>>


(* ------------------------------ UseRowChan ------------------------------ *)

(* The closure state of the RowFunc of the sheet being exported. *)
cur == ch[i + 1]

(* Without the sync.Once: every pull makes a channel and starts a goroutine. *)
ChanOnce_everyPull ==
    /\ pc = "pull"
    /\ sheet.Kind = "chan"
    /\ ch' = [ch EXCEPT ![i + 1].once = TRUE, ![i + 1].dataCh = "open",
                        ![i + 1].ppc = "run", ![i + 1].starts = cur.starts + 1]
    /\ pc' = "recv"
    /\ UNCHANGED <<config, CurrentSheet, StreamWriter, file, i, helper, err, crow, cok, log>>

(* once.Do(func() { dataCh = make(chan Row); go func() {...}() }) *)
ChanOnce ==
    /\ pc = "pull"
    /\ sheet.Kind = "chan"
    /\ ch' = IF cur.once THEN ch
             ELSE [ch EXCEPT ![i + 1].once = TRUE, ![i + 1].dataCh = "open",
                             ![i + 1].ppc = "run", ![i + 1].starts = cur.starts + 1]
    /\ pc' = "recv"
    /\ UNCHANGED <<config, CurrentSheet, StreamWriter, file, i, helper, err, crow, cok, log>>

(* row, ok := <-dataCh: the rendezvous with the sender blocked in its     *)
(* send (the channel is unbuffered; the row sent is the producer's choice) *)
(* or the zero value of a closed channel                                  *)
ChanRecv ==
    /\ pc = "recv"
    /\ \/ /\ cur.dataCh = "open"
          /\ cur.ppc = "sending"
          /\ \E shape \in RowShapes \cup {"nil"} :
                /\ crow' = MkRow(Len(cur.sent) + 1, shape)
                /\ ch' = [ch EXCEPT ![i + 1].ppc = "run",
                                    ![i + 1].sent = Append(cur.sent, crow'),
                                    ![i + 1].recvd = cur.recvd + 1]
          /\ cok' = TRUE
       \/ /\ cur.dataCh = "closed"
          /\ crow' = ZeroRow
          /\ cok' = FALSE
          /\ ch' = ch
    /\ pc' = "chanRet"
    /\ UNCHANGED <<config, CurrentSheet, StreamWriter, file, i, helper, err, log>>

(* sendErr is read before the receive: also after the close the read may  *)
(* see the value from before the goroutine's write.                        *)
ReadSendErr_beforeRecv(c, ok) == {NoErr, c.sendErr}

(* The values the read of sendErr in `if sendErr != nil` can yield.  After *)
(* a receive from the closed channel the goroutine's write happened        *)
(* before the read.  After the receive of a row nothing orders the read    *)
(* and the goroutine's write: the read sees the old or the new value.      *)
ReadSendErr(c, ok) ==
    IF ok /\ c.ppc \in {"returned", "done"} THEN {NoErr, c.sendErr} ELSE {c.sendErr}

(* if sendErr != nil { return Row{}, sendErr }; if !ok { return Row{}, nil }; *)
(* return row, nil                                                            *)
ChanReturn ==
    /\ pc = "chanRet"
    /\ \E e \in ReadSendErr(cur, cok) :
          IF e # NoErr THEN AfterPull(ZeroRow, e)
          ELSE IF ~cok THEN AfterPull(ZeroRow, NoErr)
          ELSE AfterPull(crow, NoErr)
    /\ UNCHANGED <<config, CurrentSheet, StreamWriter, file, i, rowID, sheetSuffix,
                   rowIndex, j, initRet, adapter>>

(* The channel has room for a row: the send completes with no receiver. *)
ProdSend_buffered(s) ==
    /\ ch[s].ppc = "run"
    /\ Yielded < MaxRows
    /\ ch' = [ch EXCEPT ![s].sent = Append(ch[s].sent, MkRow(Len(ch[s].sent) + 1, "empty"))]
    /\ UNCHANGED <<config, CurrentSheet, StreamWriter, file, pc, i, helper, err,
                   crow, cok, log>>

(* The goroutine of sheet s, inside sendDataFunc: dataCh <- row blocks *)
ProdSend(s) ==
    /\ ch[s].ppc = "run"
    /\ Yielded < MaxRows
    /\ ch' = [ch EXCEPT ![s].ppc = "sending"]
    /\ UNCHANGED <<config, CurrentSheet, StreamWriter, file, pc, i, helper, err,
                   crow, cok, log>>

(* sendErr = sendDataFunc(dataCh): sendDataFunc returns nil or an error *)
ProdReturn(s) ==
    /\ ch[s].ppc = "run"
    /\ \E e \in {NoErr, SomeErr} :
          ch' = [ch EXCEPT ![s].ppc = "returned", ![s].sendErr = e]
    /\ UNCHANGED <<config, CurrentSheet, StreamWriter, file, pc, i, helper, err,
                   crow, cok, log>>

(* The goroutine ends without closing the channel. *)
ProdClose_noClose(s) ==
    /\ ch[s].ppc = "returned"
    /\ ch' = [ch EXCEPT ![s].ppc = "done"]
    /\ UNCHANGED <<config, CurrentSheet, StreamWriter, file, pc, i, helper, err,
                   crow, cok, log>>

(* defer close(dataCh) *)
ProdClose(s) ==
    /\ ch[s].ppc = "returned"
    /\ ch' = [ch EXCEPT ![s].ppc = "done", ![s].dataCh = "closed"]
    /\ UNCHANGED <<config, CurrentSheet, StreamWriter, file, pc, i, helper, err,
                   crow, cok, log>>

Next ==
    \/ ExportCall
    \/ NewSheet
    \/ DeleteDefault
    \/ HelperEntry
    \/ InitFlush
    \/ InitOpen
    \/ InitHook
    \/ PullFunc
    \/ ChanOnce
    \/ ChanRecv
    \/ ChanReturn
    \/ Split
    \/ WriteRow
    \/ SetRow
    \/ StreamMergeCell
    \/ SetCellValue
    \/ SetCellStyle
    \/ SetCellFormula
    \/ MemMergeCell
    \/ RowDone
    \/ FinalFlush
    \/ NextSheet
    \/ SaveAs
    \/ Close
    \/ \E s \in DOMAIN ch : ProdSend(s)
    \/ \E s \in DOMAIN ch : ProdReturn(s)
    \/ \E s \in DOMAIN ch : ProdClose(s)

Spec == Init /\ [][Next]_vars

(* The steps of the goroutine that runs Export. *)
ExportStep ==
    \/ ExportCall \/ NewSheet \/ DeleteDefault \/ HelperEntry \/ InitFlush \/ InitOpen
    \/ InitHook \/ PullFunc \/ ChanOnce \/ ChanRecv \/ ChanReturn \/ Split \/ WriteRow
    \/ SetRow \/ StreamMergeCell \/ SetCellValue \/ SetCellStyle \/ SetCellFormula
    \/ MemMergeCell \/ RowDone \/ FinalFlush \/ NextSheet \/ SaveAs \/ Close

(* The steps of the goroutine started for the RowFunc of sheet s. *)
ProdStep(s) == s \in DOMAIN ch /\ (ProdSend(s) \/ ProdReturn(s) \/ ProdClose(s))

(* The positions a sheet can have in the argument of Export. *)
SheetPositions == UNION {DOMAIN ns : ns \in SheetNames}

(* The Go scheduler runs every goroutine that can take a step; calls into  *)
(* the workbook, the hooks and the plain row sources return.               *)
FairSpec ==
    /\ Spec
    /\ WF_vars(ExportStep)
    /\ \A s \in SheetPositions : WF_vars(ProdStep(s))


(* ----------------------------- reading the log -------------------------- *)

Specs == 0..(Len(sheets) - 1)

(* The non-sentinel rows the row source of spec s has returned, in order. *)
PulledRows(s) ==
    SelectSeq(log, LAMBDA e : e.op = "pull" /\ e.spec = s /\ e.ok /\ e.cells >= 0)

(* All returns of the row source of spec s, in order. *)
Pulls(s) == SelectSeq(log, LAMBDA e : e.op = "pull" /\ e.spec = s)

(* The calls of the row write of spec s, in order. *)
Writes(s) == SelectSeq(log, LAMBDA e : e.op = "writeRow" /\ e.spec = s)

(* The sheets created while exporting spec s, in order. *)
Created(s) == SelectSeq(log, LAMBDA e : e.op = "createSheet" /\ e.spec = s /\ e.ok)

(* The row source of spec s has returned the sentinel (no error before it). *)
SpecEnded(s) ==
    \E k \in DOMAIN log : log[k].op = "pull" /\ log[k].spec = s /\ log[k].ok
                          /\ log[k].cells = -1

BackendRowOps == {"setRow", "setCellValue", "setCellStyle", "setCellFormula", "mergeCells"}

(* The physical sheet of the q-th block of rows of a sheet called name. *)
PhysicalSheet(name, q) == IF q = 0 THEN name ELSE SplitName(name, q)

CeilDiv(a, b) == (a + b - 1) \div b

Max(a, b) == IF a >= b THEN a ELSE b

(* ------------------------------- C1 ------------------------------------- *)

(* C1: with M = SheetMaxRows, the rows a spec's source returns are written  *)
(* one call each, in pull order; the k-th pulled row (k = 0, 1, ...) is     *)
(* written at row (k mod M) + 1 of sheet `name` when k div M = 0 and of     *)
(* `name_<k div M>` otherwise, in both strategies (the backend calls that   *)
(* follow the call of the row write carry its row number and go to its      *)
(* sheet, resp. to the stream opened on its sheet);                         *)
(* once the source has returned the sentinel after N rows, N rows were      *)
(* written and max(1, ceil(N/M)) sheets were created for the spec, the      *)
(* last one not empty when it is an overflow sheet.                         *)
C1_RowPlacement ==
    /\ \A s \in Specs :
          LET P == PulledRows(s)
              W == Writes(s)
              C == Created(s)
          IN  /\ Len(W) <= Len(P)
              /\ Len(P) <= Len(W) + 1
              /\ \A k \in 1..Len(W) :
                    /\ W[k].id = P[k].id
                    /\ W[k].cells = P[k].cells
                    /\ W[k].n = ((k - 1) % SheetMaxRows) + 1
                    /\ W[k].sheet =
                          PhysicalSheet(sheets[s + 1].Name, (k - 1) \div SheetMaxRows)
              /\ SpecEnded(s) =>
                    /\ Len(W) = Len(P)
                    /\ Len(C) = Max(1, CeilDiv(Len(P), SheetMaxRows))
                    /\ \A q \in 1..Len(C) :
                          C[q].sheet = PhysicalSheet(sheets[s + 1].Name, q - 1)
                    /\ Len(C) > 1 => W[Len(W)].sheet = C[Len(C)].sheet
    /\ \A p \in DOMAIN log :
          /\ log[p].op \in BackendRowOps =>
                /\ p > 1
                /\ log[p - 1].op \in BackendRowOps \cup {"writeRow"}
                /\ log[p].spec = log[p - 1].spec
                /\ log[p].n = log[p - 1].n
                /\ log[p].id = log[p - 1].id
                /\ log[p].h = log[p - 1].h
                /\ ~UseStreamWriter => log[p].sheet = log[p - 1].sheet
          /\ (log[p].op = "writeRow" /\ UseStreamWriter) =>
                \E o \in 1..(p - 1) :
                   /\ log[o].op = "openStream" /\ log[o].ok
                   /\ log[o].h = log[p].h
                   /\ log[o].sheet = log[p].sheet

(* A spec fed SheetMaxRows + 1 rows has ended: its last row went to row 1   *)
(* of the overflow sheet.                                                   *)
C1_Witness ==
    \E s \in Specs :
       /\ SpecEnded(s)
       /\ Len(PulledRows(s)) = SheetMaxRows + 1
       /\ Len(Writes(s)) = SheetMaxRows + 1
       /\ Writes(s)[SheetMaxRows + 1].n = 1


(* ------------------------------- C2 ------------------------------------- *)

(* C2: for a UseRowChan source whose producer has handed over the rows      *)
(* r0..r(k-1), the first k pulls return r0..r(k-1) in that order, none      *)
(* dropped, duplicated or replaced by an error; a pull after them returns   *)
(* the recorded error when the producer failed.                             *)
C2_PullsInOrder ==
    \A s \in Specs :
       sheets[s + 1].Kind = "chan" =>
          LET R == Pulls(s)
              sent == ch[s + 1].sent
          IN  \A k \in 1..Len(R) :
                 IF k <= Len(sent)
                   THEN /\ R[k].ok
                        /\ R[k].id = sent[k].id
                        /\ R[k].cells = NumCells(sent[k])
                   ELSE ch[s + 1].sendErr = SomeErr => ~R[k].ok


(* ------------------------------- C3 ------------------------------------- *)

Failed == \E k \in DOMAIN log : ~log[k].ok

(* C3: when a step of Export fails (a backend call, the init hook or a pull *)
(* of the row source), Export returns an error, and after the failing step  *)
(* the only further call is the backend close: no pull, row write, merge,   *)
(* sheet creation, init hook or saveAs.                                     *)
C3_AbortOnError ==
    \A k \in DOMAIN log :
       ~log[k].ok =>
          /\ err = SomeErr
          /\ pc \in {"close", "done"}
          /\ k >= Len(log) - 1
          /\ k = Len(log) - 1 => log[Len(log)].op = "close"

(* Export has returned after a pull failed in the middle of a sheet. *)
C3_Witness ==
    /\ pc = "done"
    /\ \E k \in DOMAIN log :
          /\ log[k].op = "pull" /\ ~log[k].ok
          /\ \E q \in 1..(k - 1) : log[q].op = "writeRow"

(* ------------------------------- C4 ------------------------------------- *)

(* The pull loop of spec s has ended without an error. *)
LoopEnded(s) == s < i \/ (s = i /\ pc \in {"finalFlush", "nextSheet"})

(* C4: the pull loop of a spec ends only on a row with nil Cells; a row     *)
(* with present but empty Cells is written like any row: the row write is   *)
(* called for it before the next pull, the next pull has the next source    *)
(* index and the next row written gets the next row number.                 *)
C4_SentinelOnly ==
    /\ \A s \in Specs :
          LoopEnded(s) =>
             LET R == Pulls(s)
             IN  Len(R) > 0 /\ R[Len(R)].ok /\ R[Len(R)].cells = -1
    /\ \A p \in DOMAIN log :
          (log[p].op = "pull" /\ log[p].ok /\ log[p].cells = 0) =>
             \A q \in (p + 1)..Len(log) :
                (log[q].op = "pull" /\ log[q].spec = log[p].spec) =>
                   /\ log[q].n > log[p].n
                   /\ log[q].n = log[p].n + 1 =>
                         \E w \in (p + 1)..(q - 1) :
                            /\ log[w].op = "writeRow"
                            /\ log[w].id = log[p].id
                            /\ log[w].cells = 0
    /\ \A s \in Specs :
          LET W == Writes(s)
          IN  \A k \in 1..(Len(W) - 1) :
                 W[k].cells = 0 => W[k + 1].n = (W[k].n % SheetMaxRows) + 1

(* A source that returned one empty (not nil) row and then the sentinel:    *)
(* the export succeeded with one row write.                                 *)
C4_Witness ==
    /\ pc = "done"
    /\ err = NoErr
    /\ \E s \in Specs :
          /\ SpecEnded(s)
          /\ Len(PulledRows(s)) = 1
          /\ PulledRows(s)[1].cells = 0
          /\ Len(Writes(s)) = 1

(* ------------------------------- C5 ------------------------------------- *)

(* C5: in streaming mode, whenever NewStreamWriter is called while a        *)
(* handle opened earlier exists, that handle was flushed successfully       *)
(* after its last SetRow / MergeCell and before the call; after a failed    *)
(* flush no stream is opened.                                               *)
C5_FlushBeforeSwitch ==
    /\ \A p \in DOMAIN log :
          log[p].op = "openStream" =>
             LET prev == {q \in 1..(p - 1) : log[q].op = "openStream" /\ log[q].ok}
             IN  prev # {} =>
                    LET q == CHOOSE x \in prev : \A y \in prev : y <= x
                    IN  \E f \in (q + 1)..(p - 1) :
                           /\ log[f].op = "flush" /\ log[f].ok
                           /\ log[f].h = log[q].h
                           /\ \A r \in (f + 1)..(p - 1) :
                                 log[r].op \notin {"setRow", "mergeCells"}
    /\ \A f \in DOMAIN log :
          (log[f].op = "flush" /\ ~log[f].ok) =>
             \A r \in (f + 1)..Len(log) : log[r].op # "openStream"

(* A sheet split in streaming mode: the stream of the overflow sheet was    *)
(* opened after a merge was issued on the first handle.                     *)
C5_Witness ==
    \E p \in DOMAIN log :
       /\ log[p].op = "openStream" /\ log[p].ok
       /\ log[p].sheet = SplitName(sheets[log[p].spec + 1].Name, 1)
       /\ \E r \in 1..(p - 1) : log[r].op = "mergeCells" /\ log[r].h # log[p].h

(* ------------------------------- C6 ------------------------------------- *)

Closes == {k \in DOMAIN log : log[k].op = "close"}

(* C6: the backend close is called exactly once in every run of Export,     *)
(* as the last call before Export returns, whether it returns nil or an     *)
(* error; when Export returns nil the call before it is the successful      *)
(* saveAs.                                                                  *)
C6_CloseOnEveryPath ==
    /\ Cardinality(Closes) <= 1
    /\ Closes # {} => pc = "done"
    /\ pc = "done" =>
          /\ Cardinality(Closes) = 1
          /\ log[Len(log)].op = "close"
          /\ err = NoErr =>
                /\ Len(log) >= 2
                /\ log[Len(log) - 1].op = "saveAs"
                /\ log[Len(log) - 1].ok
          /\ err = NoErr <=> ~Failed

(* Export has returned the error of a failed init hook. *)
C6_Witness ==
    /\ pc = "done"
    /\ err = SomeErr
    /\ \E k \in DOMAIN log : log[k].op = "init" /\ ~log[k].ok


(* ------------------------------- C7 ------------------------------------- *)

(* C7: DeleteSheet("Sheet1") is called at most once in a run of Export:     *)
(* only for the first spec, as the call right after the successful          *)
(* creation of that spec's sheet, and only when the workbook then holds     *)
(* more than one sheet; never for a later spec or at a split.  Exporting    *)
(* no spec calls neither NewSheet nor DeleteSheet.                          *)
C7_DefaultSheetDeletion ==
    /\ \A k \in DOMAIN log :
          log[k].op = "deleteSheet" =>
             /\ k = 2
             /\ log[k].spec = 0
             /\ log[k].sheet = DefaultSheet
             /\ log[k].cells > 1
             /\ log[1].op = "createSheet" /\ log[1].ok /\ log[1].spec = 0
             /\ log[1].sheet = sheets[1].Name
    /\ Len(sheets) = 0 =>
          \A k \in DOMAIN log : log[k].op \notin {"createSheet", "deleteSheet"}

(* Two specs were exported with a sheet split, after the placeholder was    *)
(* deleted.                                                                 *)
C7_Witness ==
    /\ pc = "done"
    /\ Len(sheets) = 2
    /\ \E k \in DOMAIN log : log[k].op = "deleteSheet" /\ log[k].ok
    /\ Cardinality({k \in DOMAIN log : log[k].op = "createSheet" /\ log[k].ok}) = 3

(* ------------------------------- C8 ------------------------------------- *)

C9_RowNumberArgument ==
    /\ \A p \in DOMAIN log : log[p].op = "pull" => log[p].n >= 1
    /\ \A s \in Specs :
          LET P == PulledRows(s)
              W == Writes(s)
          IN  \A k \in 1..Len(W) : P[k].n = W[k].n

(* ------------------------------- C10 ------------------------------------ *)

(* The calls of the init hook of spec s, in order. *)
Inits(s) == SelectSeq(log, LAMBDA e : e.op = "init" /\ e.spec = s)

Started(s) == s \in DOMAIN ch /\ ch[s].ppc # "none"

(* It has terminated: sendDataFunc returned and the channel is closed. *)
Terminated(s) == s \in DOMAIN ch /\ ch[s].ppc = "done" /\ ch[s].dataCh = "closed"

(* The consumer of sheet position s pulls no more: Export is past the      *)
(* sheet's pull loop, or is returning an error.                            *)
ConsumerGone(s) == i + 1 > s \/ pc \in {"finalFlush", "nextSheet", "saveAs", "close", "done"}

(* The goroutine is blocked in a send that nobody will receive. *)
Stuck(s) == s \in DOMAIN ch /\ ch[s].ppc = "sending" /\ ConsumerGone(s)

(* C11 as stated: once started, the background task eventually terminates  *)
(* (sendDataFunc has returned and the channel is closed), also when the     *)
(* consumer stops pulling.                                                  *)
C11_ProducerTerminates ==
    \A s \in SheetPositions : Started(s) ~> Terminated(s)

(* ------------------------------- C12 ------------------------------------ *)

(* C12: the return value of sendDataFunc is recorded before the channel is  *)
(* closed: in every state where the channel is closed the goroutine has     *)
(* finished and the closure state (sendErr included) never changes again;   *)
(* a receive on the closed channel does not block and yields no row, and    *)
(* the pull it belongs to returns the recorded error if sendDataFunc        *)
(* failed and the sentinel with a nil error otherwise.  The outcome is a    *)
(* function of the unchanging closure state, so every later pull returns    *)
(* the same.                                                                *)
C12_AfterClose ==
    /\ [](\A s \in DOMAIN ch :
             ch[s].dataCh = "closed" =>
                /\ ch[s].ppc = "done"
                /\ (pc = "recv" /\ i + 1 = s => ENABLED ChanRecv))
    /\ [][\A s \in DOMAIN ch :
             ch[s].dataCh = "closed" =>
                /\ s \in DOMAIN ch'
                /\ ch'[s] = ch[s]
                /\ (pc = "recv" /\ i + 1 = s /\ pc' # pc =>
                       /\ pc' = "chanRet"
                       /\ ~cok'
                       /\ crow' = ZeroRow)
                /\ (pc = "chanRet" /\ i + 1 = s /\ ~cok /\ pc' # pc =>
                       LET e == log'[Len(log')]
                       IN  /\ Len(log') = Len(log) + 1
                           /\ e.op = "pull"
                           /\ e.cells = -1
                           /\ e.ok = (ch[s].sendErr = NoErr)
                           /\ IF ch[s].sendErr = NoErr
                                THEN /\ row' = ZeroRow
                                     /\ err' = NoErr
                                     /\ pc' \in {"finalFlush", "nextSheet"}
                                ELSE /\ err' = ch[s].sendErr
                                     /\ pc' = "close")]_vars

(* A pull whose receive found the channel closed has returned the error    *)
(* recorded by a producer that failed after one row.                        *)
C12_Witness ==
    /\ pc = "close"
    /\ i + 1 \in DOMAIN ch
    /\ cur.dataCh = "closed"
    /\ cur.sendErr = SomeErr
    /\ Len(cur.sent) = 1
    /\ ~cok
    /\ err = SomeErr
    /\ log[Len(log)].op = "pull"
    /\ ~log[Len(log)].ok
    /\ Len(Writes(i)) = 1

(* ------------------------------- C13 ------------------------------------ *)

(* The return logged at position k is the sentinel or an error. *)
LastPull(k) == log[k].op = "pull" /\ (~log[k].ok \/ log[k].cells = -1)

(* Export is inside a call of the row source of the sheet at position i. *)
InPull == pc \in {"pull", "recv", "chanRet"}

(* C13: once the row source of a spec has returned the sentinel or an       *)
(* error, it is not called again during the run: no later return of that    *)
(* source is logged and Export is not inside a call of it.                  *)
C13_NoPullAfterEnd ==
    \A k \in DOMAIN log :
       LastPull(k) =>
          /\ \A m \in DOMAIN log :
                m > k => ~(log[m].op = "pull" /\ log[m].spec = log[k].spec)
          /\ ~(InPull /\ i = log[k].spec)

(* Export has returned after two sheets; the source of the first returned   *)
(* one row and the sentinel, and the export went on with the second sheet.  *)
C13_Witness ==
    /\ pc = "done"
    /\ Len(sheets) = 2
    /\ SpecEnded(0)
    /\ Len(Pulls(0)) = 2
    /\ Len(Pulls(1)) >= 1
    /\ \E k \in DOMAIN log : LastPull(k) /\ log[k].spec = 0 /\ k + 3 < Len(log)

(* ------------------------------- C14 ------------------------------------ *)

(* The calls of the row write made before log position k on the physical   *)
(* sheet written at k.                                                      *)
EarlierWrites(k) ==
    {m \in 1..(k - 1) : log[m].op = "writeRow" /\ log[m].sheet = log[k].sheet}

(* C14: every row write goes to e.CurrentSheet with a row number in         *)
(* 1..SheetMaxRows (so do the workbook calls it makes), and the row writes  *)
(* on one physical sheet carry the row numbers 1, 2, 3, ... in order: the   *)
(* m-th write on a sheet has row number m.                                  *)
C14_RowNumbers ==
    /\ \A k \in DOMAIN log :
          log[k].op \in BackendRowOps \cup {"writeRow"} =>
             /\ log[k].n \in 1..SheetMaxRows
             /\ (k = Len(log) /\ (log[k].op = "writeRow" \/ ~UseStreamWriter)) =>
                   log[k].sheet = CurrentSheet
    /\ \A k \in DOMAIN log :
          log[k].op = "writeRow" => log[k].n = Cardinality(EarlierWrites(k)) + 1

(* ------------------------------- C19 ------------------------------------ *)

(* The names of the specs of this Export call are pairwise distinct. *)
DistinctNames ==
    \A a, b \in DOMAIN sheets : a # b => sheets[a].Name # sheets[b].Name

(* C19: when the spec names are pairwise distinct, the names passed to      *)
(* NewSheet during the export (spec names and overflow names) are pairwise  *)
(* distinct, and no physical sheet gets rows of two specs.                  *)
C19_DistinctPhysicalSheets ==
    DistinctNames =>
       \A k, m \in DOMAIN log :
          /\ (k < m /\ log[k].op = "createSheet" /\ log[m].op = "createSheet") =>
                log[k].sheet # log[m].sheet
          /\ (log[k].op = "writeRow" /\ log[m].op = "writeRow"
                /\ log[k].sheet = log[m].sheet) => log[k].spec = log[m].spec

(* ------------------------------- C15 ------------------------------------ *)

(* C15: in streaming mode, when SaveAs is called, every stream handle       *)
(* opened during the export was flushed successfully before the call, and   *)
(* no SetRow or MergeCell went to the handle between its last flush and     *)
(* the call.                                                                *)
C15_FlushedBeforeSave ==
    \A p \in DOMAIN log :
       (UseStreamWriter /\ log[p].op = "saveAs") =>
          \A q \in 1..(p - 1) :
             (log[q].op = "openStream" /\ log[q].ok) =>
                \E f \in (q + 1)..(p - 1) :
                   /\ log[f].op = "flush" /\ log[f].ok
                   /\ log[f].h = log[q].h
                   /\ \A r \in (f + 1)..(p - 1) :
                         ~(log[r].op \in {"setRow", "mergeCells"} /\ log[r].h = log[q].h)

(* SaveAs was called after a streaming export that opened two handles and   *)
(* issued a merge on the second.                                            *)
C15_Witness ==
    /\ UseStreamWriter
    /\ \E p \in DOMAIN log :
          /\ log[p].op = "saveAs"
          /\ \E q \in 1..(p - 1) :
                /\ log[q].op = "openStream" /\ log[q].ok /\ log[q].h = 2
                /\ \E r \in (q + 1)..(p - 1) : log[r].op = "mergeCells" /\ log[r].h = 2

(* ------------------------------- C18 ------------------------------------ *)

(* C18: in streaming mode no stream handle is flushed more than once       *)
(* during a run of Export.                                                  *)
C18_FlushOnce ==
    \A f, g \in DOMAIN log :
       (log[f].op = "flush" /\ log[g].op = "flush" /\ log[f].h = log[g].h) => f = g

(* ------------------------------- C16 ------------------------------------ *)

(* A call of the row source of the sheet at position s has begun. *)
PullBegun(s) ==
    \/ Len(Pulls(s - 1)) > 0
    \/ (i = s - 1 /\ pc \in {"recv", "chanRet"})

(* C16: for a row source built by UseRowChan, before its first pull no      *)
(* channel exists and sendDataFunc is not running; from the first pull on,  *)
(* however many pulls were made, exactly one channel was made and exactly   *)
(* one goroutine was started, which calls sendDataFunc once.  A plain       *)
(* RowFunc starts nothing.                                                  *)
C16_SingleLazyProducer ==
    \A s \in DOMAIN ch :
       /\ ch[s].starts = IF sheets[s].Kind = "chan" /\ PullBegun(s) THEN 1 ELSE 0
       /\ ch[s].once = (ch[s].starts > 0)
       /\ (ch[s].ppc = "none") = (ch[s].starts = 0)
       /\ (ch[s].dataCh = "nil") = (ch[s].starts = 0)
       /\ (ch[s].starts = 0) => (ch[s].sent = <<>> /\ ch[s].sendErr = NoErr)

(* The adapter of a sheet has answered three pulls and one goroutine was    *)
(* started.                                                                 *)
C16_Witness ==
    \E s \in DOMAIN ch :
       /\ sheets[s].Kind = "chan"
       /\ Len(Pulls(s - 1)) = 3
       /\ Len(ch[s].sent) = 2
       /\ ch[s].starts = 1

(* ------------------------------- C17 ------------------------------------ *)

(* The sends the goroutine of sheet s has begun: the completed ones and    *)
(* the one it is blocked in.                                               *)
SendsBegun(s) == Len(ch[s].sent) + (IF ch[s].ppc = "sending" THEN 1 ELSE 0)

(* The calls of the row source of sheet s begun so far. *)
PullsBegun(s) ==
    Len(Pulls(s - 1)) + (IF i = s - 1 /\ pc \in {"recv", "chanRet"} THEN 1 ELSE 0)

(* C17: in every state the sends the producer has completed are as many as  *)
(* the rows the consumer has received from the channel, one per pull at     *)
(* most; the producer is at most the one row of its blocked send ahead.     *)
C17_Backpressure ==
    \A s \in DOMAIN ch :
       /\ Len(ch[s].sent) = ch[s].recvd
       /\ ch[s].recvd <= PullsBegun(s)
       /\ SendsBegun(s) <= ch[s].recvd + 1
       /\ SendsBegun(s) <= PullsBegun(s) + 1

(* The consumer is writing the second row it received while the producer   *)
(* is blocked in its third send.                                           *)
C17_Witness ==
    /\ pc \in {"write", "setRow", "cellValue"}
    /\ i + 1 \in DOMAIN ch
    /\ cur.recvd = 2
    /\ Len(cur.sent) = 2
    /\ cur.ppc = "sending"
    /\ Len(Pulls(i)) = 2

(* ------------------------------- C20 ------------------------------------ *)

(* Every row the producers have sent has a non-nil Cells slice. *)
PresentCells ==
    \A s \in DOMAIN ch : \A k \in DOMAIN ch[s].sent : ~ch[s].sent[k].nil

(* C20: when every goroutine that can take a step is scheduled, producers   *)
(* send finitely many rows and return, and the calls into the workbook      *)
(* return: every pull on a source built by UseRowChan returns, Export       *)
(* returns, and when it returns nil after producers that sent rows with     *)
(* present cells only, every goroutine started has terminated.              *)
C20_NoDeadlock ==
    /\ (InPull /\ sheet.Kind = "chan") ~> ~InPull
    /\ (pc # "idle") ~> (pc = "done")
    /\ [](pc = "done" /\ err = NoErr /\ PresentCells =>
             \A s \in DOMAIN ch : sheets[s].Kind = "chan" => Terminated(s))

(* Export has returned nil after a source built by UseRowChan delivered    *)
(* two rows with present cells and its goroutine ended.                     *)
C20_Witness ==
    /\ pc = "done"
    /\ err = NoErr
    /\ PresentCells
    /\ \E s \in DOMAIN ch :
          /\ sheets[s].Kind = "chan"
          /\ Len(ch[s].sent) = 2
          /\ Terminated(s)

=============================================================================
